---- MODULE Spec2Model ----
(***************************************************************************)
(* Model of the 4-player tic-tac-toe engine of App (src/unnamed/part_000): *)
(* the React state turn / winner / allButtons, the handlers placeMarker    *)
(* and restartGame, and the win scan displayWinner with its helpers; and of *)
(* the audio context of SoundManager (src/src/SoundManager.ts).            *)
(***************************************************************************)
EXTENDS Integers, Sequences, FiniteSets, TLC

\* ------------------------------------------------------------ constants
FIRST_PLAYER == 1
SECOND_PLAYER == 2
THIRD_PLAYER == 3
FOURTH_PLAYER == 4
GRID_SIZE == 5
PLAYGROUND_SIZE == GRID_SIZE * GRID_SIZE
EMPTY_CELL_VALUE == 9
DEFAULT_WINNER_TEXT == "No one has won yet."

\* Reading an array slot that does not exist yields JavaScript's undefined;
\* the model writes it as a number no cell ever holds.
UNDEFINED == 0 - 1
\* checkWinnerBatch / displayWinner answer null when no line is won;
\* null is falsy, as the number 0 is.
NULL == 0

PlayerIds == FIRST_PLAYER..FOURTH_PLAYER

\* ------------------------------------------------------------ bounds
\* A click on an Empty cell lands on one of the first Window Empty cells of the
\* mover's home line, or on the mover's first Empty spare cell.
Window == 1
\* Spare cells (cells on no home line) dealt to the players, in turn order.
Spare == 2
\* Indices a click may carry beyond either end of the board.
Overshoot == 1
\* Lines the first player may build on at once when it plays for two lines.
Aims == 2
\* Placements of a game played to a full board, counted from its first, that
\* may take the second Empty cell of the order of play instead of the first.
Detours == 1

VARIABLES
    turn,        \* useState<number>(FIRST_PLAYER)
    winner,      \* useState<string>(DEFAULT_WINNER_TEXT)
    allButtons,  \* useState<number[]>(Array(PLAYGROUND_SIZE).fill(EMPTY_CELL_VALUE))
    raised,      \* what the last handler invocation threw: "none" or an error name
    scanned,     \* what displayWinner last returned in this game; UNDEFINED before
    last,        \* the last command: "init", "restart", or the case of a placeMarker
    audioContext, \* SoundManager.audioContext: null, or the context (the n-th built is n)
    emitted      \* the collaborator calls the last command made, in order

vars == <<turn, winner, allButtons, raised, scanned, last, audioContext, emitted>>

\* The engine's state proper.
game == <<turn, winner, allButtons>>

\* ------------------------------------------------------------ array helpers
\* A JavaScript array is a sequence; the slot of index i is its (i + 1)-th element.

\* buttons.length
Length(buttons) == Len(buttons)

\* buttons[i]: the slot's value, undefined outside the array.
At(buttons, i) ==
    IF i >= 0 /\ i < Len(buttons) THEN buttons[i + 1] ELSE UNDEFINED

\* buttons[id] = value on a copy of the array: a slot past the end grows the
\* array (the slots in between hold undefined); a negative id names no slot.
SetAt(buttons, id, value) ==
    IF id >= 0 /\ id < Len(buttons) THEN [buttons EXCEPT ![id + 1] = value]
    ELSE IF id >= Len(buttons)
         THEN buttons \o [k \in 1..(id - Len(buttons)) |-> UNDEFINED] \o <<value>>
         ELSE buttons

\* Array(PLAYGROUND_SIZE).fill(EMPTY_CELL_VALUE)
EmptyGrid == [i \in 1..PLAYGROUND_SIZE |-> EMPTY_CELL_VALUE]

\* ------------------------------------------------------------ pure functions
\* incrementTurn with the fourth player left out of the rotation.
nextTurn_SkipsFourth(prevTurn) ==
    IF prevTurn = FIRST_PLAYER THEN SECOND_PLAYER
    ELSE IF prevTurn = SECOND_PLAYER THEN THIRD_PLAYER
    ELSE FIRST_PLAYER

\* incrementTurn handing the turn back to the player who moved.
nextTurn_Stays(prevTurn) == prevTurn

\* incrementTurn with the second and third players in each other's place.
nextTurn_SwapsMiddle(prevTurn) ==
    IF prevTurn = FIRST_PLAYER THEN THIRD_PLAYER
    ELSE IF prevTurn = THIRD_PLAYER THEN SECOND_PLAYER
    ELSE IF prevTurn = SECOND_PLAYER THEN FOURTH_PLAYER
    ELSE FIRST_PLAYER

\* incrementTurn, lines 21-29
nextTurn(prevTurn) ==
    IF prevTurn = FIRST_PLAYER THEN SECOND_PLAYER
    ELSE IF prevTurn = SECOND_PLAYER THEN THIRD_PLAYER
    ELSE IF prevTurn = THIRD_PLAYER THEN FOURTH_PLAYER
    ELSE FIRST_PLAYER

getWinnerString(player) == "Player " \o ToString(player) \o " wins!"

\* buttons.slice(i, i + GRID_SIZE): the slots i..i+GRID_SIZE-1 that lie in the array
rowSlice(i, buttons, length) ==
    LET n == IF i + GRID_SIZE <= length THEN GRID_SIZE ELSE length - i
    IN  [k \in 1..n |-> At(buttons, i + k - 1)]

scanColumns(colIndex, buttons) ==
    [k \in 1..GRID_SIZE |-> At(buttons, (k - 1) * GRID_SIZE + colIndex)]

\* the loop indices i = start, start + step, ... while i < limit
RECURSIVE stride(_, _, _)
stride(i, step, limit) ==
    IF i < limit THEN <<i>> \o stride(i + step, step, limit) ELSE <<>>

topLeftToBottomRightScan(buttons) ==
    LET idx == stride(0, GRID_SIZE + 1, Length(buttons))
    IN  [k \in 1..Len(idx) |-> At(buttons, idx[k])]

\* topRightToBottomLeftScan running its loop up to the last cell of the array.
topRightToBottomLeftScan_ToLastCell(buttons) ==
    LET idx == stride(GRID_SIZE - 1, GRID_SIZE - 1, Length(buttons))
    IN  [k \in 1..Len(idx) |-> At(buttons, idx[k])]

topRightToBottomLeftScan(buttons) ==
    LET idx == stride(GRID_SIZE - 1, GRID_SIZE - 1, Length(buttons) - 1)
    IN  [k \in 1..Len(idx) |-> At(buttons, idx[k])]

\* checkWinnerBatch without the test for the empty sentinel.
checkWinnerBatch_NoEmptyCheck(batch) ==
    LET first == IF Len(batch) > 0 THEN batch[1] ELSE UNDEFINED
    IN  IF \A k \in 1..Len(batch) : batch[k] = first THEN first ELSE NULL

\* checkWinnerBatch content with all cells but one equal to the first.
checkWinnerBatch_AllButOne(batch) ==
    LET first == IF Len(batch) > 0 THEN batch[1] ELSE UNDEFINED
    IN  IF first # EMPTY_CELL_VALUE
           /\ Cardinality({k \in 1..Len(batch) : batch[k] # first}) <= 1
        THEN first
        ELSE NULL

checkWinnerBatch(batch) ==
    LET first == IF Len(batch) > 0 THEN batch[1] ELSE UNDEFINED
    IN  IF first # EMPTY_CELL_VALUE /\ \A k \in 1..Len(batch) : batch[k] = first
        THEN first
        ELSE NULL

\* JavaScript truthiness of a checkWinnerBatch result
Truthy(v) == v # NULL /\ v # UNDEFINED

\* the loop over the rows run from the last row up.
RECURSIVE rowLoop_LastRowFirst(_, _, _)
rowLoop_LastRowFirst(i, buttons, length) ==
    IF i < length
    THEN LET later == rowLoop_LastRowFirst(i + GRID_SIZE, buttons, length)
         IN  IF Truthy(later) THEN later
             ELSE checkWinnerBatch(rowSlice(i, buttons, length))
    ELSE NULL

\* the loop over the rows, lines 56-59, from index i on
RECURSIVE rowLoop(_, _, _)
rowLoop(i, buttons, length) ==
    IF i < length
    THEN LET winnerPlayer == checkWinnerBatch(rowSlice(i, buttons, length))
         IN  IF Truthy(winnerPlayer) THEN winnerPlayer
             ELSE rowLoop(i + GRID_SIZE, buttons, length)
    ELSE NULL

\* the loop over the columns, lines 60-64, from column i on
RECURSIVE colLoop(_, _)
colLoop(i, buttons) ==
    IF i < GRID_SIZE
    THEN LET winnerPlayer == checkWinnerBatch(scanColumns(i, buttons))
         IN  IF Truthy(winnerPlayer) THEN winnerPlayer
             ELSE colLoop(i + 1, buttons)
    ELSE NULL

displayWinner(buttons) ==
    LET byRow == rowLoop(0, buttons, Length(buttons))
    IN  IF Truthy(byRow) THEN byRow
        ELSE LET byCol == colLoop(0, buttons)
             IN  IF Truthy(byCol) THEN byCol
                 ELSE LET winnerDiag1 == checkWinnerBatch(topLeftToBottomRightScan(buttons))
                      IN  IF Truthy(winnerDiag1) THEN winnerDiag1
                          ELSE LET winnerDiag2 ==
                                       checkWinnerBatch(topRightToBottomLeftScan(buttons))
                               IN  IF Truthy(winnerDiag2) THEN winnerDiag2
                                   ELSE NULL

\* The batches displayWinner hands to checkWinnerBatch when no line is won, in
\* the order it builds them: the rows (lines 56-57), the columns (lines 60-61),
\* the two diagonals (lines 65 and 67).
examinedLines(buttons) ==
    LET starts == stride(0, GRID_SIZE, Length(buttons))
        rows == [r \in 1..Len(starts) |-> rowSlice(starts[r], buttons, Length(buttons))]
        cols == [c \in 1..GRID_SIZE |-> scanColumns(c - 1, buttons)]
    IN  rows \o cols
            \o <<topLeftToBottomRightScan(buttons), topRightToBottomLeftScan(buttons)>>

\* ------------------------------------------------------------ SoundManager
\* getContext, lines 4-13 of SoundManager.ts: the context is built on the first call that finds
\* none; the constructor may throw, which is caught and leaves the field null.
\* getContext without its test of the field: every call constructs, and a
\* construction that succeeds replaces the context in use.
getContext_AlwaysConstructs ==
    audioContext' \in {audioContext, IF audioContext = NULL THEN NULL + 1 ELSE NULL + 2}

getContext ==
    IF audioContext # NULL
    THEN audioContext' = audioContext
    ELSE audioContext' \in {NULL, NULL + 1}

\* The three play methods begin with getContext and return at once when it
\* answers null; the oscillators they start otherwise are not state.
playClick == getContext

playWin == getContext

playRestart == getContext

\* ------------------------------------------------------------ inputs
\* The indices of the cells of the board.
Cells == 0..(PLAYGROUND_SIZE - 1)

\* The number of cells of a grid that hold a marker.
MarkersOf(buttons) ==
    Cardinality({c \in Cells : At(buttons, c) # EMPTY_CELL_VALUE})

\* The indices a click may carry: every cell and Overshoot indices past each end.
ClickIds == (0 - Overshoot)..(PLAYGROUND_SIZE - 1 + Overshoot)

\* The line a player builds, in the order it clicks it: the row, the column and
\* the two diagonals through the centre cell; the centre, which all four lines
\* share, comes last.
HomeLine(p) ==
    IF p = FIRST_PLAYER THEN <<10, 11, 13, 14, 12>>
    ELSE IF p = SECOND_PLAYER THEN <<2, 7, 17, 22, 12>>
    ELSE IF p = THIRD_PLAYER THEN <<0, 6, 18, 24, 12>>
    ELSE <<4, 8, 16, 20, 12>>

\* The cells on no home line, in the order they are dealt to the players.
SpareCells == <<1, 3, 5, 9, 15, 19, 21, 23>>

\* A player's share of the first Spare spare cells: the p-th, the (p + 4)-th, ...
SpareOf(p) ==
    LET dealt == IF Spare < Len(SpareCells) THEN Spare ELSE Len(SpareCells)
        n == IF dealt < p THEN 0 ELSE ((dealt - p) \div FOURTH_PLAYER) + 1
    IN  [k \in 1..n |-> SpareCells[(k - 1) * FOURTH_PLAYER + p]]

\* The Empty cells among cells[k..], in order.
RECURSIVE emptyOf(_, _, _)
emptyOf(cells, k, buttons) ==
    IF k > Len(cells) THEN <<>>
    ELSE IF At(buttons, cells[k]) = EMPTY_CELL_VALUE
         THEN <<cells[k]>> \o emptyOf(cells, k + 1, buttons)
         ELSE emptyOf(cells, k + 1, buttons)

\* The first n elements of a sequence (all of it when it is shorter).
Prefix(seq, n) == {seq[k] : k \in 1..(IF Len(seq) < n THEN Len(seq) ELSE n)}

\* The Empty cells the mover may click.
Offered(buttons, p) ==
    LET home == emptyOf(HomeLine(p), 1, buttons)
        spare == emptyOf(SpareOf(p), 1, buttons)
    IN  Prefix(home, Window) \cup (IF spare = <<>> THEN {} ELSE {Head(spare)})

\* The indices a click may carry in a state: an offered Empty cell, or any index
\* whose slot is not Empty (a marked cell, an index outside the board).
Clickable(buttons, p) ==
    Offered(buttons, p) \cup {id \in ClickIds : At(buttons, id) # EMPTY_CELL_VALUE}

\* ------------------------------------------------------------ state machine
Init ==
    /\ turn = FIRST_PLAYER
    /\ winner = DEFAULT_WINNER_TEXT
    /\ allButtons = EmptyGrid
    /\ raised = "none"
    /\ scanned = UNDEFINED
    /\ last = "init"
    /\ audioContext = NULL
    /\ emitted = <<>>

\* The case a placeMarker(id) falls in: the slot it names is outside the array,
\* holds a marker, or is Empty.
Case(id) ==
    IF At(allButtons, id) = UNDEFINED THEN "outside"
    ELSE IF At(allButtons, id) # EMPTY_CELL_VALUE THEN "occupied"
    ELSE "empty"

\* The early return without its test of winner.
Rejects_IgnoresWinner(id) == At(allButtons, id) # EMPTY_CELL_VALUE

\* The early return without its test of the cell.
Rejects_IgnoresCell(id) == winner # DEFAULT_WINNER_TEXT

\* The early return testing for a marker instead of testing for the sentinel.
Rejects_OnlyMarkers(id) ==
    At(allButtons, id) \in PlayerIds \/ winner # DEFAULT_WINNER_TEXT

\* placeMarker(id), the early return of line 73
Rejects(id) ==
    At(allButtons, id) # EMPTY_CELL_VALUE \/ winner # DEFAULT_WINNER_TEXT

\* placeMarker calling incrementTurn only in the branch without a winner.
placeMarker_HoldsTurnOnWin(id) ==
    IF At(allButtons, id) # EMPTY_CELL_VALUE \/ winner # DEFAULT_WINNER_TEXT
    THEN /\ raised' = "none"
         /\ last' = Case(id)
         /\ emitted' = <<>>
         /\ UNCHANGED <<turn, winner, allButtons, scanned, audioContext>>
    ELSE LET newButtons == SetAt(allButtons, id, turn)
             winnerPlayer == displayWinner(newButtons)
         IN  /\ allButtons' = newButtons
             /\ winner' = IF Truthy(winnerPlayer)
                          THEN getWinnerString(winnerPlayer)
                          ELSE winner
             /\ turn' = IF Truthy(winnerPlayer) THEN turn ELSE nextTurn(turn)
             /\ raised' = "none"
             /\ scanned' = winnerPlayer
             /\ last' = "placed"
             /\ IF Truthy(winnerPlayer)
                THEN emitted' = <<"launchFireworks", "playWin">> /\ playWin
                ELSE emitted' = <<"playClick">> /\ playClick

\* placeMarker returning from the winning branch before setAllButtons.
placeMarker_DropsWinningGrid(id) ==
    IF At(allButtons, id) # EMPTY_CELL_VALUE \/ winner # DEFAULT_WINNER_TEXT
    THEN /\ raised' = "none"
         /\ last' = Case(id)
         /\ emitted' = <<>>
         /\ UNCHANGED <<turn, winner, allButtons, scanned, audioContext>>
    ELSE LET newButtons == SetAt(allButtons, id, turn)
             winnerPlayer == displayWinner(newButtons)
         IN  /\ winner' = IF Truthy(winnerPlayer)
                          THEN getWinnerString(winnerPlayer)
                          ELSE winner
             /\ allButtons' = IF Truthy(winnerPlayer) THEN allButtons ELSE newButtons
             /\ turn' = nextTurn(turn)
             /\ raised' = "none"
             /\ scanned' = winnerPlayer
             /\ last' = "placed"
             /\ IF Truthy(winnerPlayer)
                THEN emitted' = <<"launchFireworks", "playWin">> /\ playWin
                ELSE emitted' = <<"playClick">> /\ playClick

\* placeMarker working on the grid of the first render instead of the grid
\* the previous command committed.
placeMarker_StaleGrid(id) ==
    IF At(allButtons, id) # EMPTY_CELL_VALUE \/ winner # DEFAULT_WINNER_TEXT
    THEN /\ raised' = "none"
         /\ last' = Case(id)
         /\ emitted' = <<>>
         /\ UNCHANGED <<turn, winner, allButtons, scanned, audioContext>>
    ELSE LET newButtons == SetAt(EmptyGrid, id, turn)
             winnerPlayer == displayWinner(newButtons)
         IN  /\ allButtons' = newButtons
             /\ turn' = nextTurn(turn)
             /\ winner' = IF Truthy(winnerPlayer)
                          THEN getWinnerString(winnerPlayer)
                          ELSE winner
             /\ raised' = "none"
             /\ scanned' = winnerPlayer
             /\ last' = "placed"
             /\ IF Truthy(winnerPlayer)
                THEN emitted' = <<"launchFireworks", "playWin">> /\ playWin
                ELSE emitted' = <<"playClick">> /\ playClick

\* placeMarker answering a win with the click sound of an ordinary move.
placeMarker_ClickOnWin(id) ==
    IF At(allButtons, id) # EMPTY_CELL_VALUE \/ winner # DEFAULT_WINNER_TEXT
    THEN /\ raised' = "none"
         /\ last' = Case(id)
         /\ emitted' = <<>>
         /\ UNCHANGED <<turn, winner, allButtons, scanned, audioContext>>
    ELSE LET newButtons == SetAt(allButtons, id, turn)
             winnerPlayer == displayWinner(newButtons)
         IN  /\ allButtons' = newButtons
             /\ turn' = nextTurn(turn)
             /\ winner' = IF Truthy(winnerPlayer)
                          THEN getWinnerString(winnerPlayer)
                          ELSE winner
             /\ raised' = "none"
             /\ scanned' = winnerPlayer
             /\ last' = "placed"
             /\ emitted' = <<"playClick">> /\ playClick

placeMarker(id) ==
    IF Rejects(id)
    THEN /\ raised' = "none"
         /\ last' = Case(id)
         /\ emitted' = <<>>
         /\ UNCHANGED <<turn, winner, allButtons, scanned, audioContext>>
    ELSE LET newButtons == SetAt(allButtons, id, turn)
             winnerPlayer == displayWinner(newButtons)
         IN  /\ allButtons' = newButtons
             /\ turn' = nextTurn(turn)
             /\ winner' = IF Truthy(winnerPlayer)
                          THEN getWinnerString(winnerPlayer)
                          ELSE winner
             /\ raised' = "none"
             /\ scanned' = winnerPlayer
             /\ last' = "placed"
             /\ IF Truthy(winnerPlayer)
                THEN emitted' = <<"launchFireworks", "playWin">> /\ playWin
                ELSE emitted' = <<"playClick">> /\ playClick

\* restartGame without setTurn(FIRST_PLAYER).
restartGame_KeepsTurn ==
    /\ allButtons' = EmptyGrid
    /\ winner' = DEFAULT_WINNER_TEXT
    /\ turn' = turn
    /\ raised' = "none"
    /\ scanned' = UNDEFINED
    /\ last' = "restart"
    /\ emitted' = <<"playRestart">>
    /\ playRestart

\* restartGame building the new grid with GRID_SIZE slots.
restartGame_ShortGrid ==
    /\ allButtons' = [i \in 1..GRID_SIZE |-> EMPTY_CELL_VALUE]
    /\ winner' = DEFAULT_WINNER_TEXT
    /\ turn' = FIRST_PLAYER
    /\ raised' = "none"
    /\ scanned' = UNDEFINED
    /\ last' = "restart"
    /\ emitted' = <<"playRestart">>
    /\ playRestart

\* restartGame without setWinner(DEFAULT_WINNER_TEXT).
restartGame_KeepsWinner ==
    /\ allButtons' = EmptyGrid
    /\ winner' = winner
    /\ turn' = FIRST_PLAYER
    /\ raised' = "none"
    /\ scanned' = UNDEFINED
    /\ last' = "restart"
    /\ emitted' = <<"playRestart">>
    /\ playRestart

restartGame ==
    /\ allButtons' = EmptyGrid
    /\ winner' = DEFAULT_WINNER_TEXT
    /\ turn' = FIRST_PLAYER
    /\ raised' = "none"
    /\ scanned' = UNDEFINED
    /\ last' = "restart"
    /\ emitted' = <<"playRestart">>
    /\ playRestart

\* A click on a button of the grid (or a direct call with any index).
Click == \E id \in Clickable(allButtons, turn) : placeMarker(id)

Next == Click \/ restartGame

Spec == Init /\ [][Next]_vars

\* ------------------------------------------------------------ failing collaborators
\* placeMarker(id) when a collaborator it calls throws: launchFireworks or
\* soundManager.playWin after setWinner was queued (lines 79-81), or
\* soundManager.playClick (line 84). The handler ends there: lines 87-88 never
\* run, and React applies the updates queued before the throw. A play method
\* can only throw past its test of the context, that is, with a context.
placeMarkerThrows(id) ==
    /\ ~Rejects(id)
    /\ LET newButtons == SetAt(allButtons, id, turn)
           winnerPlayer == displayWinner(newButtons)
       IN  /\ UNCHANGED <<allButtons, turn>>
           /\ raised' = "Error"
           /\ last' = "aborted"
           /\ winner' = IF Truthy(winnerPlayer)
                        THEN getWinnerString(winnerPlayer)
                        ELSE winner
           /\ scanned' = winnerPlayer
           /\ \/ /\ Truthy(winnerPlayer)
                 /\ emitted' = <<"launchFireworks">>
                 /\ UNCHANGED audioContext
              \/ /\ Truthy(winnerPlayer)
                 /\ emitted' = <<"launchFireworks", "playWin">>
                 /\ playWin /\ audioContext' # NULL
              \/ /\ ~Truthy(winnerPlayer)
                 /\ emitted' = <<"playClick">>
                 /\ playClick /\ audioContext' # NULL

\* restartGame when soundManager.playRestart throws (line 95): the three
\* updates of lines 92-94 are already queued.
restartGameThrows ==
    /\ allButtons' = EmptyGrid
    /\ winner' = DEFAULT_WINNER_TEXT
    /\ turn' = FIRST_PLAYER
    /\ scanned' = UNDEFINED
    /\ raised' = "Error"
    /\ last' = "restart"
    /\ emitted' = <<"playRestart">>
    /\ playRestart /\ audioContext' # NULL

ClickThrows == \E id \in Clickable(allButtons, turn) : placeMarkerThrows(id)

NextThrow == Click \/ restartGame \/ ClickThrows \/ restartGameThrows

SpecThrow == Init /\ [][NextThrow]_vars

\* ------------------------------------------------------------ the scan on its own
\* displayWinner applied to grids built directly (as a unit test builds them):
\* a background, then one line painted with a player, then a second line
\* painted with a player or wiped Empty.

\* The 2N + 2 lines of the board as index sequences: rows, columns, main
\* diagonal, anti-diagonal, numbered 1..2N+2 in that order.
LineCount == GRID_SIZE + GRID_SIZE + 2

LineCells(l) ==
    IF l <= GRID_SIZE
    THEN [k \in 1..GRID_SIZE |-> (l - 1) * GRID_SIZE + (k - 1)]
    ELSE IF l <= GRID_SIZE + GRID_SIZE
    THEN [k \in 1..GRID_SIZE |-> (k - 1) * GRID_SIZE + (l - GRID_SIZE - 1)]
    ELSE IF l = GRID_SIZE + GRID_SIZE + 1
    THEN [k \in 1..GRID_SIZE |-> (k - 1) * (GRID_SIZE + 1)]
    ELSE [k \in 1..GRID_SIZE |-> k * (GRID_SIZE - 1)]

LineSet(l) == {LineCells(l)[k] : k \in 1..GRID_SIZE}

\* A background with a marker on every cell and no line of equal cells.
Filler == [i \in 1..PLAYGROUND_SIZE |->
              (((i - 1) + ((i - 1) \div GRID_SIZE)) % FOURTH_PLAYER) + 1]

Paint(buttons, l, value) ==
    [i \in 1..Len(buttons) |-> IF (i - 1) \in LineSet(l) THEN value ELSE buttons[i]]

TestGrids ==
    {Paint(Paint(bg, l1, p1), l2, v2) :
        bg \in {EmptyGrid, Filler}, l1 \in 1..LineCount, p1 \in PlayerIds,
        l2 \in 1..LineCount, v2 \in PlayerIds \cup {EMPTY_CELL_VALUE}}
        \cup {EmptyGrid, Filler}

InitScan ==
    /\ allButtons \in TestGrids
    /\ turn = FIRST_PLAYER
    /\ winner = DEFAULT_WINNER_TEXT
    /\ raised = "none"
    /\ scanned = UNDEFINED
    /\ last = "init"
    /\ audioContext = NULL
    /\ emitted = <<>>

Scan ==
    /\ last = "init"
    /\ scanned' = displayWinner(allButtons)
    /\ last' = "scan"
    /\ UNCHANGED <<allButtons, turn, winner, raised, audioContext, emitted>>

NextScan == Scan

SpecScan == InitScan /\ [][NextScan]_vars

\* ------------------------------------------------------------ playing for two lines
\* Legal play in which the first player, who gets the most placements, clicks
\* any Empty cell of the lines it aims at, in any order, while the other
\* players keep out of its way as long as they can.

\* The lines aimed at, in the order the bound admits them: row 0, column 0, the
\* main diagonal, row 1, the anti-diagonal. Among them are two parallel lines
\* and every kind of crossing pair.
AimLines == <<1, GRID_SIZE + 1, LineCount - 1, 2, LineCount>>

AimCells ==
    UNION {LineSet(AimLines[k]) :
               k \in 1..(IF Aims < Len(AimLines) THEN Aims ELSE Len(AimLines))}

AsideCells == Cells \ AimCells

\* The Empty cell of lowest index from cell c on among the cells of a set, if any.
RECURSIVE FirstEmpty(_, _, _)
FirstEmpty(buttons, c, among) ==
    IF c >= PLAYGROUND_SIZE THEN {}
    ELSE IF c \in among /\ buttons[c + 1] = EMPTY_CELL_VALUE THEN {c}
    ELSE FirstEmpty(buttons, c + 1, among)

\* The Empty cells the mover may click.
ForkOffered(buttons, p) ==
    LET aimed == {c \in AimCells : At(buttons, c) = EMPTY_CELL_VALUE}
        aside == FirstEmpty(buttons, 0, AsideCells)
    IN  IF p = FIRST_PLAYER /\ aimed # {} THEN aimed
        ELSE IF p # FIRST_PLAYER /\ aside # {} THEN aside
        ELSE FirstEmpty(buttons, 0, Cells)

ClickFork == \E id \in ForkOffered(allButtons, turn) : placeMarker(id)

NextFork == ClickFork \/ restartGame

SpecFork == Init /\ [][NextFork]_vars

\* ------------------------------------------------------------ playing to a full board
\* Legal play along an order of the cells in which nobody completes a line:
\* every other cell, wrapping around the board.
DrawOrder == [k \in 1..PLAYGROUND_SIZE |-> (2 * (k - 1)) % PLAYGROUND_SIZE]

\* The indices a click may carry: the first Empty cell of the order (or the
\* second, while detours are allowed), or any index whose slot is not Empty.
DrawClickable(buttons) ==
    Prefix(emptyOf(DrawOrder, 1, buttons),
           IF MarkersOf(buttons) < Detours THEN 2 ELSE 1)
        \cup {id \in ClickIds : At(buttons, id) # EMPTY_CELL_VALUE}

ClickDraw == \E id \in DrawClickable(allButtons) : placeMarker(id)

NextDraw == ClickDraw \/ restartGame

SpecDraw == Init /\ [][NextDraw]_vars

\* ------------------------------------------------------------ the claims
InProgress == winner = DEFAULT_WINNER_TEXT

\* The placement the rules accept: the game is in progress and the cell is Empty.
Accepts(id) == InProgress /\ At(allButtons, id) = EMPTY_CELL_VALUE

\* An index outside [0, N*N).
Outside(id) == id < 0 \/ id >= PLAYGROUND_SIZE

\* The round-robin successor 1 -> 2 -> ... -> P -> 1.
RoundRobin(t) == (t % FOURTH_PLAYER) + 1

\* The engine state of a freshly constructed game.
Fresh(buttons, t, w) ==
    /\ buttons = [i \in 1..PLAYGROUND_SIZE |-> EMPTY_CELL_VALUE]
    /\ t = FIRST_PLAYER
    /\ w = DEFAULT_WINNER_TEXT

\* Every cell of line l holds the value v.
LineHolds(buttons, l, v) == \A c \in LineSet(l) : At(buttons, c) = v

\* The lines of a grid whose cells all hold one and the same PlayerId.
WonLines(buttons) ==
    {l \in 1..LineCount : \E p \in PlayerIds : LineHolds(buttons, l, p)}

\* The player holding every cell of a won line.
OwnerOf(buttons, l) == At(buttons, LineCells(l)[1])

\* C1: once the status is Won(X), no placeMarker, whatever its index, changes
\* the grid, Turn or the status (a step that changes one of them is no
\* placeMarker), and the status leaves Won(X) only by a restart.
C1_TerminalState ==
    /\ [][UNCHANGED game \/ InProgress \/ ~ \E id \in ClickIds : placeMarker(id)]_vars
    /\ [][(~InProgress /\ winner' # winner) => restartGame]_vars

\* A click on an Empty cell was rejected because the game is won.
C1_Witness == ~InProgress /\ last = "empty"

\* C2: a placeMarker on an index whose cell holds a marker leaves the grid,
\* Turn and the status as they were, in every reachable state (a step that
\* changes one of them is no placeMarker on a marked cell).
C2_OccupiedIsNoOp ==
    [][UNCHANGED game \/
       \A id \in ClickIds :
           ~(~Outside(id) /\ At(allButtons, id) # EMPTY_CELL_VALUE /\ placeMarker(id))]_vars

\* A click on a marked cell was rejected while the game is in progress.
C2_Witness == InProgress /\ last = "occupied" /\ MarkersOf(allButtons) > 0

\* C3 as claimed: the placement that produces a winner leaves Turn unchanged.
C3_WinHoldsTurn ==
    [][(InProgress /\ winner' # DEFAULT_WINNER_TEXT) => turn' = turn]_vars

\* C3 as amended: the placement that produces a winner sets the status to
\* Won(winner) and advances Turn to its round-robin successor, as any accepted
\* placement does.
C3_WinAdvancesTurn ==
    [][(InProgress /\ winner' # DEFAULT_WINNER_TEXT)
          => /\ winner' = getWinnerString(displayWinner(allButtons'))
             /\ turn' = RoundRobin(turn)]_vars

\* A placement has just won the game and Turn has moved past the winner.
C3_Witness == ~InProgress /\ last = "placed" /\ turn = RoundRobin(scanned)

\* C4: Turn is always a PlayerId; a placeMarker that is rejected never changes
\* it, one that is accepted moves it to the round-robin successor; whenever a
\* multiple of P placements has been accepted since the game began (the grid
\* then holds that many markers), Turn is player 1 again.
C4_TurnRotation ==
    [][/\ turn \in PlayerIds /\ turn' \in PlayerIds
       /\ turn' # turn => ~ \E id \in ClickIds : ~Accepts(id) /\ placeMarker(id)
       /\ last' = "placed" =>
              \A id \in ClickIds :
                  (Accepts(id) /\ placeMarker(id)) => turn' = RoundRobin(turn)
       /\ last = "init" =>
              (MarkersOf(allButtons) % FOURTH_PLAYER = 0 => turn = FIRST_PLAYER)
       /\ UNCHANGED game \/
              (MarkersOf(allButtons') % FOURTH_PLAYER = 0 => turn' = FIRST_PLAYER)]_vars

\* P placements in a row were accepted from a fresh game, none of them winning.
C4_Witness ==
    /\ InProgress /\ last = "placed"
    /\ MarkersOf(allButtons) = FOURTH_PLAYER /\ turn = FIRST_PLAYER

\* C5: an accepted placeMarker(index) commits the previous grid with cell index
\* set to the Turn before the command and every other cell unchanged, whether
\* or not the move wins.
C5_AcceptedCommit ==
    [][last' = "placed" =>
          \A id \in ClickIds :
              (Accepts(id) /\ placeMarker(id))
                  => /\ Len(allButtons') = PLAYGROUND_SIZE
                     /\ \A c \in Cells :
                            At(allButtons', c) =
                                IF c = id THEN turn ELSE At(allButtons, c)]_vars

\* The winning placement is on the committed grid: the grid shows a won line.
C5_Witness ==
    ~InProgress /\ last = "placed" /\ WonLines(allButtons) # {}

\* C6: on any grid of N*N cells the scan ends, reports a player only if that
\* player holds every cell of some line, and reports no winner exactly when no
\* line is held entirely by one player (an Empty line is not a win).
C6_ScanCorrect ==
    last = "scan" =>
        IF WonLines(allButtons) = {}
        THEN scanned = NULL
        ELSE /\ scanned \in PlayerIds
             /\ \E l \in 1..LineCount : LineHolds(allButtons, l, scanned)

\* Scanned with no winner: a grid with a line one cell short of a win and a
\* line of Empty cells.
C6_Witness ==
    /\ last = "scan" /\ scanned = NULL
    /\ \E l \in 1..LineCount : LineHolds(allButtons, l, EMPTY_CELL_VALUE)
    /\ \E l \in 1..LineCount : \E p \in PlayerIds :
           Cardinality({c \in LineSet(l) : At(allButtons, c) = p}) = GRID_SIZE - 1

\* C7: when several lines are won, the scan reports the player of the first won
\* line in the order rows ascending, columns ascending, main diagonal,
\* anti-diagonal.
C7_FirstWonLine ==
    (last = "scan" /\ WonLines(allButtons) # {}) =>
        LET first == CHOOSE l \in WonLines(allButtons) :
                         \A m \in WonLines(allButtons) : l <= m
        IN  scanned = OwnerOf(allButtons, first)

\* Scanned a grid with two won lines held by different players.
C7_Witness ==
    /\ last = "scan"
    /\ \E l, m \in WonLines(allButtons) :
           OwnerOf(allButtons, l) # OwnerOf(allButtons, m)

\* C8: restart is enabled in every state and yields the state of a freshly
\* constructed game: every cell Empty, Turn player 1, status InProgress.
C8_RestartFresh ==
    [][/\ ENABLED restartGame
       /\ last' = "restart" => Fresh(allButtons', turn', winner') /\ raised' = "none"]_vars

\* A restart has run and the game is fresh.
C8_Witness == last = "restart" /\ Fresh(allButtons, turn, winner)

\* C9 as claimed: a placeMarker with an index outside [0, N*N) fails with
\* IndexOutOfRange and changes nothing.
C9_OutsideFails ==
    [][\A id \in ClickIds :
          (Outside(id) /\ placeMarker(id))
              => raised' = "IndexOutOfRange" /\ UNCHANGED game]_vars

\* C9 as amended: a placeMarker with an index outside [0, N*N) raises nothing
\* and changes nothing, exactly as a placeMarker on an occupied cell.
C9_OutsideIsNoOp ==
    [][\A id \in ClickIds :
          (Outside(id) /\ placeMarker(id)) => raised' = "none" /\ UNCHANGED game]_vars

\* A click with an index outside the board was rejected.
C9_Witness == last = "outside" /\ raised = "none"

\* C10: a placeMarker whose collaborator throws still applies the placement as
\* if it had not thrown (grid committed, status set, Turn advanced), and the
\* status is Won exactly when the committed grid shows a won line.
C10_FailureHarmless ==
    [][\A id \in ClickIds :
          placeMarkerThrows(id)
              => /\ allButtons' = SetAt(allButtons, id, turn)
                 /\ turn' = RoundRobin(turn)
                 /\ (winner' # DEFAULT_WINNER_TEXT) <=> (WonLines(allButtons') # {})]_vars

\* The events of the rules, as the collaborator calls that announce them.
GameWon == <<"launchFireworks", "playWin">>

MoveAccepted == <<"playClick">>

GameRestarted == <<"playRestart">>

\* C11: a command emits GameWon exactly when it is the placeMarker that sets
\* the status to Won, MoveAccepted exactly when it is a placeMarker accepted
\* without a winner, GameRestarted exactly when it is a restart, and nothing
\* exactly when it is a rejected placeMarker: one event or none, never two.
C11_OneEvent ==
    [][/\ emitted' \in {<<>>, GameWon, MoveAccepted, GameRestarted}
       /\ (emitted' = GameWon) <=> (InProgress /\ winner' # DEFAULT_WINNER_TEXT)
       /\ (emitted' = MoveAccepted)
              <=> (last' = "placed" /\ winner' = DEFAULT_WINNER_TEXT)
       /\ (emitted' = GameRestarted) <=> (last' = "restart")
       /\ (emitted' = <<>>) <=> (last' \in {"outside", "occupied", "empty"})]_vars

\* The placement that won the game announced it, with no click sound.
C11_Witness == ~InProgress /\ last = "placed" /\ emitted = GameWon

\* C12: in every reachable state the grid has exactly N*N cells and each holds
\* Empty or a PlayerId, whatever indices the placeMarker calls carried.
C12_GridShape ==
    /\ Len(allButtons) = PLAYGROUND_SIZE
    /\ \A c \in Cells : At(allButtons, c) \in PlayerIds \cup {EMPTY_CELL_VALUE}

\* A placeMarker with an index outside the board has run on a grid with markers.
C12_Witness ==
    /\ last = "outside" /\ MarkersOf(allButtons) > 0
    /\ Len(allButtons) = PLAYGROUND_SIZE

C14_MoverWins ==
    [][(InProgress /\ winner' # DEFAULT_WINNER_TEXT)
          => /\ winner' = getWinnerString(turn)
             /\ \A id \in Cells :
                    At(allButtons', id) # At(allButtons, id)
                        => \E l \in 1..LineCount :
                               /\ id \in LineSet(l)
                               /\ LineHolds(allButtons', l, turn)]_vars

\* A player other than the first has just won with its own placement.
C14_Witness ==
    /\ ~InProgress /\ last = "placed" /\ scanned # FIRST_PLAYER
    /\ MarkersOf(allButtons) > MarkersOf(EmptyGrid)

\* The cells of a grid that hold the marker of player p.
HeldBy(buttons, p) == {c \in Cells : At(buttons, c) = p}

\* C15: under legal play no reachable grid shows two won lines: a fresh grid
\* shows none, so no placement makes more than one line newly won, and the
\* order of the scan cannot change the winner it reports.
C15_OneWonLine == Cardinality(WonLines(allButtons)) <= 1

\* The first player has won one line while holding a cell of another line it
\* was building.
C15_Witness ==
    /\ ~InProgress /\ last = "placed"
    /\ Cardinality(WonLines(allButtons)) = 1
    /\ Cardinality(HeldBy(allButtons, FIRST_PLAYER)) > GRID_SIZE

\* C16: while the game is in progress Turn is (number of markers mod P) + 1,
\* and of two players the one earlier in the rotation holds as many cells as
\* the later one, or exactly one more.
C16_TurnFromCount ==
    InProgress =>
        /\ turn = (MarkersOf(allButtons) % FOURTH_PLAYER) + 1
        /\ \A p, q \in PlayerIds :
               p < q =>
                   LET ahead == Cardinality(HeldBy(allButtons, p))
                                    - Cardinality(HeldBy(allButtons, q))
                   IN  ahead = 0 \/ ahead = 1

\* More than a round has been played: the first player is one marker ahead of
\* the last, and the turn is the second player's.
C16_Witness ==
    /\ InProgress /\ last = "placed" /\ turn = SECOND_PLAYER
    /\ MarkersOf(allButtons) > FOURTH_PLAYER
    /\ Cardinality(HeldBy(allButtons, FIRST_PLAYER))
           = Cardinality(HeldBy(allButtons, FOURTH_PLAYER)) + 1

\* No cell of the grid is Empty.
Full(buttons) == MarkersOf(buttons) = PLAYGROUND_SIZE

\* C17: an accepted placement adds one marker to a grid of N*N cells, so at
\* most N*N are accepted between two restarts; a full grid with no won line
\* leaves the status InProgress, every placeMarker on it is rejected, and only
\* a restart changes the state.
C17_FullBoard ==
    [][/\ last' = "placed" =>
              /\ MarkersOf(allButtons') = MarkersOf(allButtons) + 1
              /\ MarkersOf(allButtons') <= PLAYGROUND_SIZE
       /\ (Full(allButtons) /\ WonLines(allButtons) = {}) =>
              /\ InProgress
              /\ \A id \in ClickIds : Rejects(id)
              /\ UNCHANGED game \/ restartGame]_vars

\* The board is full, nobody has won, and a click has just been rejected.
C17_Witness ==
    /\ Full(allButtons) /\ WonLines(allButtons) = {}
    /\ InProgress /\ last = "occupied"

\* C18: every command acts on the state the previous command committed. No
\* marker on the grid is lost or overwritten except by a restart; an accepted
\* placement adds exactly one marker, of the player whose turn it is, and
\* passes the turn on; and after two accepted placements in a row the grid
\* still shows the marker of the earlier one, placed by the previous player.
C18_NoLostPlacement ==
    [][/\ (allButtons' # allButtons /\ last' # "restart") =>
              \A c \in Cells :
                  At(allButtons, c) # EMPTY_CELL_VALUE
                      => At(allButtons', c) = At(allButtons, c)
       /\ last' = "placed" =>
              /\ \E c \in Cells :
                     /\ At(allButtons, c) = EMPTY_CELL_VALUE
                     /\ HeldBy(allButtons', turn) = HeldBy(allButtons, turn) \cup {c}
              /\ MarkersOf(allButtons') = MarkersOf(allButtons) + 1
              /\ turn' = RoundRobin(turn)
       /\ (last = "placed" /\ last' = "placed") =>
              \E p \in PlayerIds :
                  /\ RoundRobin(p) = turn
                  /\ HeldBy(allButtons, p) # {}
                  /\ HeldBy(allButtons', p) = HeldBy(allButtons, p)]_vars

\* Two placements in a row were accepted from a fresh game: the grid shows the
\* markers of the first and of the second player.
C18_Witness ==
    /\ last = "placed" /\ turn = THIRD_PLAYER
    /\ Cardinality(HeldBy(allButtons, FIRST_PLAYER)) = 1
    /\ Cardinality(HeldBy(allButtons, SECOND_PLAYER)) = 1
    /\ MarkersOf(allButtons) = 2

\* The grid whose every cell holds its own index: a line extracted from it is
\* the sequence of the indices the extraction reads.
IndexGrid == [i \in 1..PLAYGROUND_SIZE |-> i - 1]

\* C19: on a grid of N*N cells the scan examines N rows (indices rN..rN+N-1),
\* N columns (c, c+N, ..., c+(N-1)N), the main diagonal (k(N+1), k = 0..N-1)
\* and the anti-diagonal (k(N-1), k = 1..N), 2N+2 lines in all; each has N
\* cells, all in range, read from those indices, and the anti-diagonal does
\* not read the last cell N*N-1.
C19_LineGeometry ==
    last = "scan" =>
        LET lines == examinedLines(allButtons)
            read == examinedLines(IndexGrid)
        IN  /\ Len(lines) = LineCount
            /\ Len(read) = LineCount
            /\ \A l \in 1..LineCount :
                   /\ Len(lines[l]) = GRID_SIZE
                   /\ read[l] = LineCells(l)
                   /\ \A k \in 1..GRID_SIZE :
                          /\ read[l][k] \in Cells
                          /\ lines[l][k] = At(allButtons, LineCells(l)[k])
            /\ \A k \in 1..Len(read[LineCount]) :
                   read[LineCount][k] # PLAYGROUND_SIZE - 1

\* Scanned a grid won by the anti-diagonal alone, whose last cell holds the
\* marker of another player.
C19_Witness ==
    /\ last = "scan" /\ WonLines(allButtons) = {LineCount}
    /\ scanned = OwnerOf(allButtons, LineCount)
    /\ At(allButtons, PLAYGROUND_SIZE - 1) \in PlayerIds \ {scanned}

\* C20: at most one audio context is ever constructed (the context in use is
\* absent or the first built), and once there is one every later call keeps
\* it; a command that calls no play method leaves the field alone; a play call
\* that finds no context and fails to build one raises nothing and leaves the
\* context absent; and while it is absent the next play call tries again, so
\* that it can succeed.
C20_OneContext ==
    [][/\ audioContext' \in {NULL, NULL + 1}
       /\ audioContext # NULL => audioContext' = audioContext
       /\ emitted' = <<>> => audioContext' = audioContext
       /\ (emitted' # <<>> /\ audioContext' = NULL) => raised' = "none"
       /\ audioContext = NULL => ENABLED (restartGame /\ audioContext' # NULL)]_vars

\* Two placements were accepted and neither of their play calls could build a
\* context: it is still absent.
C20_Witness ==
    /\ audioContext = NULL /\ last = "placed" /\ emitted = MoveAccepted
    /\ MarkersOf(allButtons) = 2

====
